---- MODULE Spec2Model ----
(***************************************************************************)
(* SPH particle-to-grid interpolation (sarracen): the kernel abstraction   *)
(* with its column-kernel quadrature and cache, and the four projectors   *)
(* (onto a grid: 2D, 3D column, 3D plane; onto a line: 2D cross-section)   *)
(* with their parallel per-particle accumulation.                          *)
(*                                                                         *)
(* Numbers.  Particle coordinates, smoothing lengths and pixel widths are  *)
(* integers (the inputs are drawn from integer-valued data).  A normalized *)
(* distance q is held in fixed point as q*Scale, rounded down.  A kernel   *)
(* weight is held as the integer w(q)*4*Scale^3/norm(ndim): the polynomial *)
(* of the cubic spline evaluated exactly on the fixed-point q, in units of *)
(* the (positive) dimension normalization.                                 *)
(***************************************************************************)
EXTENDS Integers, Sequences, FiniteSets, TLC

\* ------------------------------------------------------------------ bounds
\* fixed-point resolution of a normalized distance q
Scale == 16
\* largest sample count handed to the quadrature
MaxSamples == 3
\* threads calling into one shared kernel object
NumCallers == 2
\* calls made on one kernel object in a run: by several threads, by one
MaxCalls == 3
MaxCallsSeq == 4
\* particles in the data handed to a projector
NumParticles == 2
\* threads running the parallel per-particle loop
NumThreads == 2

\* ------------------------------------------------------- program constants
\* CubicSplineKernel.get_radius()
Radius == 2
\* the inner quadrature loop: for j in range(100)
QuadPoints == 100
\* dz = bounds / 99.0
QuadIntervals == 99
\* get_column_kernel(self, samples: int = 1000), and the one cached key
DefaultSamples == 1000

\* ---------------------------------------------------------------- numerics
Min(a, b) == IF a <= b THEN a ELSE b
Max(a, b) == IF a >= b THEN a ELSE b
Abs(a) == IF a >= 0 THEN a ELSE -a

\* the largest r in lo..hi with r*r <= n (lo*lo <= n is given)
RECURSIVE SqrtSearch(_, _, _)
SqrtSearch(n, lo, hi) ==
  IF lo >= hi THEN lo
  ELSE LET mid == (lo + hi + 1) \div 2
       IN IF mid * mid <= n THEN SqrtSearch(n, mid, hi)
          ELSE SqrtSearch(n, lo, mid - 1)

\* np.sqrt on a non-negative fixed-point argument, rounded down
Sqrt(n) == SqrtSearch(n, 0, Min(n, 46340))

\* a Python bool used as a factor
B(cond) == IF cond THEN 1 ELSE 0

\* ------------------------------------------------------------------ kernel
get_radius == Radius

\* CubicSplineKernel.w(q, ndim), q in units of 1/Scale, the result in units
\* of norm(ndim)/(4*Scale^3)
w(q, ndim) ==
  (4 * Scale * Scale * Scale - 6 * Scale * q * q + 3 * q * q * q)
     * B(0 <= q) * B(q < Scale)
  + (2 * Scale - q) * (2 * Scale - q) * (2 * Scale - q)
     * B(Scale <= q) * B(q < 2 * Scale)

\* ------------------------------------------------- _int_func (quadrature)
\* Lengths inside _int_func are held in units of 1/(QuadIntervals*Scale),
\* rounded down; coldens is held in half units of weight*length, so that
\* 0.5*y*dz is the integer y*dz.
FineScale == QuadIntervals * Scale

\* r2 = radius * radius, in units of 1/FineScale^2
R2(radius) == radius * radius * FineScale * FineScale

\* q_xy2 = i * (r2 / samples)
QXY2(radius, samples, i) == i * (R2(radius) \div samples)

\* bounds = np.sqrt(r2 - q_xy2), in units of 1/FineScale
Bounds(radius, samples, i) == Sqrt(R2(radius) - QXY2(radius, samples, i))

\* dz = bounds / 99.0, in units of 1/FineScale
DZ(radius, samples, i) == Bounds(radius, samples, i) \div QuadIntervals

\* q_z = j * dz
QZ(radius, samples, i, j) == j * DZ(radius, samples, i)

\* q = np.sqrt(q_xy2 + q_z * q_z), brought to units of 1/Scale
QAt(radius, samples, i, j) ==
  Sqrt(QXY2(radius, samples, i)
       + QZ(radius, samples, i, j) * QZ(radius, samples, i, j))
    \div QuadIntervals

\* twice the weight of evaluation point j: 0.5 at j == 0 or j == 99, else 1
TrapWeightFlat(j) == 2
TrapWeight(j) == IF j = 0 \/ j = QuadPoints - 1 THEN 1 ELSE 2

\* one pass of the inner loop body: coldens += weight * y * dz
ColdensStep(coldens, radius, samples, i, j) ==
  coldens + TrapWeight(j) * w(QAt(radius, samples, i, j), 3)
                          * DZ(radius, samples, i)

\* the inner loop over j in lo..hi, as the sum of its passes (the passes only
\* add to coldens, so the sum is split in halves to keep the recursion flat)
RECURSIVE ColdensSum(_, _, _, _, _)
ColdensSum(radius, samples, i, lo, hi) ==
  IF lo > hi THEN 0
  ELSE IF lo = hi THEN ColdensStep(0, radius, samples, i, lo)
  ELSE LET mid == (lo + hi) \div 2
       IN ColdensSum(radius, samples, i, lo, mid)
          + ColdensSum(radius, samples, i, mid + 1, hi)

\* np.zeros(n)
Zeros(n) == [k \in 1..n |-> 0]

\* _int_func(radius, samples, wfunc) as a function of its arguments; entry i
\* of the array is element i+1 of the sequence
int_func(radius, samples) ==
  [k \in 1..(samples + 1) |->
     IF k <= samples
       THEN 2 * ColdensSum(radius, samples, k - 1, 0, QuadPoints - 1)
       ELSE 0]

\* --------------------------------------------------- projector arithmetic
\* np.rint(num / den) for den > 0: to the nearest integer, halves to even
Rint(num, den) ==
  LET f == num \div den
      r == num % den
  IN IF 2 * r < den THEN f
     ELSE IF 2 * r > den THEN f + 1
     ELSE IF f % 2 = 0 THEN f ELSE f + 1

\* ndarray.clip(a_min=lo, a_max=hi)
Clip(a, lo, hi) == Min(Max(a, lo), hi)

\* np.rint((coord - k_rad * h - origin) / pixwidth).clip(a_min=0, a_max=pixcount)
PixMin(coord, h, k_rad, origin, pixwidth, pixcount) ==
  Clip(Rint(coord - k_rad * h - origin, pixwidth), 0, pixcount)

\* np.rint((coord + k_rad * h - origin) / pixwidth).clip(a_min=0, a_max=pixcount)
PixMax(coord, h, k_rad, origin, pixwidth, pixcount) ==
  Clip(Rint(coord + k_rad * h - origin, pixwidth), 0, pixcount)

\* np.arange(lo, hi)
Arange(lo, hi) == lo..(hi - 1)

\* twice the offset of the centre of pixel c from coord:
\* origin + (c + 0.5) * pixwidth - coord
Offset2(c, origin, pixwidth, coord) ==
  2 * origin + (2 * c + 1) * pixwidth - 2 * coord

\* np.sqrt(q2) in units of 1/Scale, q2 = (sum of squared offsets) * (1 / h**2),
\* the squared offsets given doubled (four times their sum)
QOf(sq4, h) == Sqrt((sq4 * Scale * Scale) \div (4 * h * h))

\* np.linspace(start, stop, num), in units of 1/Scale
Linspace(start, stop, num) ==
  [k \in 1..num |->
     IF num = 1 THEN start * Scale
     ELSE start * Scale + ((stop - start) * Scale * (k - 1)) \div (num - 1)]

\* np.interp(x, xp, fp) raises when xp is empty or xp and fp differ in length
InterpError(xp, fp) ==
  IF Len(xp) = 0 THEN "array of sample points is empty"
  ELSE IF Len(xp) # Len(fp) THEN "fp and xp are not of the same size."
  ELSE "none"

\* np.interp(x, xp, fp) at one x: clamped to the ends of xp, linear between
\* its two neighbours
InterpValue(x, xp, fp) ==
  IF x <= xp[1] THEN fp[1]
  ELSE IF x >= xp[Len(xp)] THEN fp[Len(xp)]
  ELSE LET j == CHOOSE k \in 1..(Len(xp) - 1) : xp[k] <= x /\ x < xp[k + 1]
           slope == (fp[j + 1] - fp[j]) \div (xp[j + 1] - xp[j])
       IN slope * (x - xp[j]) + fp[j]

\* a[mask]: the entries of a where mask holds, in order
RECURSIVE Compress(_, _)
Compress(a, mask) ==
  IF Len(a) = 0 THEN <<>>
  ELSE IF Head(mask) THEN <<Head(a)>> \o Compress(Tail(a), Tail(mask))
  ELSE Compress(Tail(a), Tail(mask))

\* np.isclose with its defaults rtol = 1e-05 and atol = 1e-08, in units of
\* 1e-9: atol is 10 of them, and rtol * 1 is 10000
NanoPerUnit == 1000000000
IscloseAtol == 10
IscloseRtol == 10000

\* np.isclose(a, b), that is abs(a - b) <= atol + rtol * abs(b), for
\* a = aInt + aNano * 1e-9 and b = bInt.  With D the whole part of the
\* difference, in units of rtol, less abs(b): D * rtol <= atol - (the part of
\* abs(a - b) that aNano makes)
IsClose(aInt, aNano, bInt) ==
  LET part == IF aInt > bInt THEN aNano
              ELSE IF aInt < bInt THEN -aNano
              ELSE Abs(aNano)
  IN (NanoPerUnit \div IscloseRtol) * Abs(aInt - bInt) - Abs(bInt)
       <= (IscloseAtol - part) \div IscloseRtol

VARIABLES
  quad,     \* the frame of one _int_func call: samples, result, i, j, coldens, pc
  kernel,   \* the kernel object: _column_cache, _ckernel_func_cache
  tables,   \* the arrays _int_func has allocated: samples, entries filled
  frames,   \* per calling thread: pc, op, samples, c_kernel
  klog,     \* the calls that have returned, in order: op, samples, ret
  npublish, \* how many times _column_cache has been assigned
  fn,       \* the projector called
  args,     \* its grid arguments, zslice and int_samples
  data,     \* the particle data: one record per particle
  pc,       \* start, prange (in the parallel loop), done, raised
  error,    \* the message of the exception raised, or "none"
  colsRead, \* the particle columns have been read (to_numpy)
  loc,      \* the arrays the _fast_ routine computes before its loop
  image,    \* the output image, once allocated
  todo,     \* the loop indices no thread has taken yet
  thr,      \* per thread of the loop: the particle in hand and its pixels
  added,    \* per particle and pixel, what its += has added so far
  returned  \* the image returned to the caller

quadVars == <<quad>>
kernVars == <<kernel, tables, frames, klog, npublish>>
gridVars == <<fn, args, data, pc, error, colsRead, loc, image, todo, thr,
              added, returned>>
vars == <<quadVars, kernVars, gridVars>>

\* Python's None; arrays are named by their index in tables (1, 2, ...)
None == 0

\* ---------------------------------------------------------- _int_func run
QuadIdle == quad = [pc |-> "off"]

QuadInit ==
  \E s \in 1..MaxSamples :
    quad = [samples |-> s, result |-> Zeros(s + 1), i |-> 0, j |-> 0,
            coldens |-> 0, pc |-> "outer"]

\* for i in range(samples): ... coldens = 0.0
QuadOuter ==
  /\ quad.pc = "outer"
  /\ quad.i < quad.samples
  /\ quad' = [quad EXCEPT !.coldens = 0, !.j = 0, !.pc = "inner"]
  /\ UNCHANGED <<kernVars, gridVars>>

\* for j in range(100): ... coldens += ...
QuadInner ==
  /\ quad.pc = "inner"
  /\ quad.j < QuadPoints
  /\ quad' = [quad EXCEPT
       !.coldens = ColdensStep(quad.coldens, get_radius, quad.samples,
                               quad.i, quad.j),
       !.j = quad.j + 1]
  /\ UNCHANGED <<kernVars, gridVars>>

\* result[i] = 2 * coldens
QuadStore ==
  /\ quad.pc = "inner"
  /\ quad.j = QuadPoints
  /\ quad' = [quad EXCEPT
       !.result = [quad.result EXCEPT ![quad.i + 1] = 2 * quad.coldens],
       !.i = quad.i + 1, !.pc = "outer"]
  /\ UNCHANGED <<kernVars, gridVars>>

\* result[samples] = 0.0; return result
QuadReturn ==
  /\ quad.pc = "outer"
  /\ quad.i = quad.samples
  /\ quad' = [quad EXCEPT
       !.result = [quad.result EXCEPT ![quad.samples + 1] = 0],
       !.pc = "done"]
  /\ UNCHANGED <<kernVars, gridVars>>

\* ------------------------------------------- BaseKernel and its two caches
Callers == 1..NumCallers
SampleChoices == {2, DefaultSamples}

\* BaseKernel.__init__
KernInit ==
  /\ kernel = [column_cache |-> None, ckernel_func_cache |-> None]
  /\ tables = <<>>
  /\ frames = [t \in Callers |->
                 [pc |-> "idle", op |-> "none", samples |-> 0, c_kernel |-> None]]
  /\ klog = <<>>
  /\ npublish = 0

KernIdle ==
  /\ kernel = [column_cache |-> None, ckernel_func_cache |-> None]
  /\ tables = <<>>
  /\ frames = <<>>
  /\ klog = <<>>
  /\ npublish = 0

InFlight == Cardinality({t \in DOMAIN frames : frames[t].pc # "idle"})

\* if samples == 1000 and self._column_cache is not None:
CacheHitAnyKey(samples, cache) == cache # None
CacheHit(samples, cache) == samples = DefaultSamples /\ cache # None

\* if samples == 1000:  (the cache is assigned)
CacheKeepAlways(samples) == TRUE
CacheKeep(samples) == samples = DefaultSamples

\* a thread enters get_column_kernel(samples)
KCall(t, s, max) ==
  /\ frames[t].pc = "idle"
  /\ Len(klog) + InFlight < max
  /\ frames' = [frames EXCEPT ![t] =
       [pc |-> "check", op |-> "get_column_kernel", samples |-> s,
        c_kernel |-> None]]
  /\ UNCHANGED <<kernel, tables, klog, npublish, quadVars, gridVars>>

\* a thread enters get_column_kernel_func(samples): its own cache is
\* consulted first, then get_column_kernel(samples) is called
KFuncCall(t, s, max) ==
  /\ frames[t].pc = "idle"
  /\ Len(klog) + InFlight < max
  /\ IF kernel.ckernel_func_cache # None /\ s = DefaultSamples
       THEN /\ klog' = Append(klog, [op |-> "get_column_kernel_func",
                                     samples |-> s,
                                     ret |-> kernel.ckernel_func_cache])
            /\ UNCHANGED frames
       ELSE /\ frames' = [frames EXCEPT ![t] =
                 [pc |-> "check", op |-> "get_column_kernel_func",
                  samples |-> s, c_kernel |-> None]]
            /\ UNCHANGED klog
  /\ UNCHANGED <<kernel, tables, npublish, quadVars, gridVars>>

\* the cache test of get_column_kernel; a hit returns self._column_cache
KCheck(t) ==
  /\ frames[t].pc = "check"
  /\ IF CacheHit(frames[t].samples, kernel.column_cache)
       THEN /\ klog' = Append(klog, [op |-> frames[t].op,
                                     samples |-> frames[t].samples,
                                     ret |-> kernel.column_cache])
            /\ frames' = [frames EXCEPT ![t].pc = "idle"]
       ELSE /\ frames' = [frames EXCEPT ![t].pc = "alloc"]
            /\ UNCHANGED klog
  /\ UNCHANGED <<kernel, tables, npublish, quadVars, gridVars>>

\* _int_func: result = np.zeros(samples + 1)
KAlloc(t) ==
  /\ frames[t].pc = "alloc"
  /\ tables' = Append(tables, [samples |-> frames[t].samples, filled |-> 0])
  /\ frames' = [frames EXCEPT ![t].pc = "fill", ![t].c_kernel = Len(tables) + 1]
  /\ UNCHANGED <<kernel, klog, npublish, quadVars, gridVars>>

\* _int_func: the loops and result[samples] = 0.0 fill the array; it is
\* returned into the local c_kernel
KFill(t) ==
  /\ frames[t].pc = "fill"
  /\ tables' = [tables EXCEPT ![frames[t].c_kernel].filled = frames[t].samples + 1]
  /\ frames' = [frames EXCEPT ![t].pc = "publish"]
  /\ UNCHANGED <<kernel, klog, npublish, quadVars, gridVars>>

\* if samples == 1000: self._column_cache = c_kernel
KPublish(t) ==
  /\ frames[t].pc = "publish"
  /\ IF CacheKeep(frames[t].samples)
       THEN /\ kernel' = [kernel EXCEPT !.column_cache = frames[t].c_kernel]
            /\ npublish' = npublish + 1
       ELSE UNCHANGED <<kernel, npublish>>
  /\ frames' = [frames EXCEPT ![t].pc = "return"]
  /\ UNCHANGED <<tables, klog, quadVars, gridVars>>

\* return c_kernel
KReturn(t) ==
  /\ frames[t].pc = "return"
  /\ klog' = Append(klog, [op |-> frames[t].op, samples |-> frames[t].samples,
                           ret |-> frames[t].c_kernel])
  /\ frames' = [frames EXCEPT ![t].pc = "idle"]
  /\ UNCHANGED <<kernel, tables, npublish, quadVars, gridVars>>

\* ------------------------------------------------------------ the projectors
Threads == 1..NumThreads

\* the grids offered: widths and counts, valid and not
GridChoices ==
  [pixwidthx : {0, 8}, pixwidthy : {-8, 8}, xmin : {0}, ymin : {0},
   pixcountx : {0, 2}, pixcounty : {-1, 1},
   zslice : {0}, int_samples : {DefaultSamples}]

\* the z-planes offered to interpolate_3d_cross
ZSlices == {0, 1}

\* the particles offered.  On the 2 x 1 grid of 8-wide pixels (centres at
\* x = 4 and x = 12, y = 4): one on a pixel centre whose support ends on the
\* next centre, a wide one over both pixels, one far outside, one with
\* h < 0, one at distance radius*h from the plane z = 0, and one between
\* the pixel centres just inside the plane filter.
ParticleChoices ==
  << [target |-> 1,  x |-> 4,   y |-> 4, z |-> 0, m |-> 512, rho |-> 1, h |-> 4],
     [target |-> 1,  x |-> 12,  y |-> 4, z |-> 0, m |-> 512, rho |-> 1, h |-> 8],
     [target |-> 1,  x |-> 100, y |-> 4, z |-> 0, m |-> 512, rho |-> 1, h |-> 4],
     [target |-> 1,  x |-> 4,   y |-> 4, z |-> 0, m |-> 512, rho |-> 1, h |-> -4],
     [target |-> -1, x |-> 4,   y |-> 4, z |-> 8, m |-> 512, rho |-> 1, h |-> 4],
     [target |-> 1,  x |-> 8,   y |-> 4, z |-> 7, m |-> 512, rho |-> 1, h |-> 4] >>

\* the cross-section lines offered to interpolate_2d_cross, from (x1, y1) to
\* (x2 + x2n * 1e-9, y2 + y2n * 1e-9): along y = 4 in both directions, a
\* diagonal, a vertical one, a point, and three lines a few 1e-9 long; the
\* gradient of each is a whole number
LineShapes ==
  { [x1 |-> 0,  y1 |-> 4, x2 |-> 16, y2 |-> 4, x2n |-> 0, y2n |-> 0],
    [x1 |-> 16, y1 |-> 4, x2 |-> 0,  y2 |-> 4, x2n |-> 0, y2n |-> 0],
    [x1 |-> 0,  y1 |-> 0, x2 |-> 8,  y2 |-> 8, x2n |-> 0, y2n |-> 0],
    [x1 |-> 4,  y1 |-> 0, x2 |-> 4,  y2 |-> 8, x2n |-> 0, y2n |-> 0],
    [x1 |-> 0,  y1 |-> 0, x2 |-> 0,  y2 |-> 0, x2n |-> 0, y2n |-> 0],
    [x1 |-> 0,  y1 |-> 0, x2 |-> 0,  y2 |-> 0, x2n |-> 5, y2n |-> 0],
    [x1 |-> 0,  y1 |-> 0, x2 |-> 0,  y2 |-> 0, x2n |-> 5, y2n |-> -5],
    [x1 |-> 4,  y1 |-> 4, x2 |-> 4,  y2 |-> 4, x2n |-> 0, y2n |-> 5] }

PixcountChoices == {-1, 0, 2}

LineChoices ==
  { [x1 |-> l.x1, y1 |-> l.y1, x2 |-> l.x2, y2 |-> l.y2, x2n |-> l.x2n,
     y2n |-> l.y2n, pixcount |-> c] : l \in LineShapes, c \in PixcountChoices }

\* the particle data offered: up to NumParticles of them, the same one more
\* than once too.  The loop takes the particles in any order, so the data are
\* offered in one order only
DataChoices ==
  UNION { { [k \in 1..n |-> ParticleChoices[f[k]]] :
              f \in {g \in [1..n -> DOMAIN ParticleChoices] :
                       \A k \in 1..(n - 1) : g[k] <= g[k + 1]} } :
          n \in 0..NumParticles }

NoArgs == <<>>
NoImage == <<>>
NoLocals == [term |-> <<>>, ipixmin |-> <<>>, ipixmax |-> <<>>,
             jpixmin |-> <<>>, jpixmax |-> <<>>, dz |-> <<>>,
             filter_distance |-> <<>>, wfuncint |-> <<>>]
IdleFrame == [pc |-> "idle", i |-> 0, cells |-> <<>>, contribution |-> <<>>,
              tmp |-> 0, wab |-> [err |-> "none", val |-> <<>>]]

\* the pixels (row, column) of an image of shape (pixcounty, pixcountx)
Cells(a) == (0..(a.pixcounty - 1)) \X (0..(a.pixcountx - 1))

\* the pixels of the output of the call made
OutCells == DOMAIN image

\* np.zeros((pixcounty, pixcountx))
ZeroImage(a) == [cell \in Cells(a) |-> 0]

GridInit ==
  /\ fn = "none"
  /\ args = NoArgs
  /\ data \in DataChoices
  /\ pc = "start"
  /\ error = "none"
  /\ colsRead = FALSE
  /\ loc = NoLocals
  /\ image = NoImage
  /\ todo = {}
  /\ thr = [t \in Threads |-> IdleFrame]
  /\ added = <<>>
  /\ returned = NoImage

GridIdle ==
  /\ fn = "none"
  /\ args = NoArgs
  /\ data = <<>>
  /\ pc = "off"
  /\ error = "none"
  /\ colsRead = FALSE
  /\ loc = NoLocals
  /\ image = NoImage
  /\ todo = {}
  /\ thr = <<>>
  /\ added = <<>>
  /\ returned = NoImage

\* the parameter checks of interpolate_2d
CheckGrid2d(a) ==
  IF a.pixwidthx <= 0 THEN "pixwidthx must be greater than zero!"
  ELSE IF a.pixwidthy <= 0 THEN "pixwidthy must be greater than zero!"
  ELSE IF a.pixcountx <= 0 THEN "pixcountx must be greater than zero!"
  ELSE IF a.pixcounty <= 0 THEN "pixcounty must be greater than zero!"
  ELSE "ok"

\* the parameter checks of interpolate_3d
CheckGrid3d(a) ==
  IF a.pixwidthx <= 0 THEN "pixwidthx must be greater than zero!"
  ELSE IF a.pixwidthy <= 0 THEN "pixwidthy must be greater than zero!"
  ELSE IF a.pixcountx <= 0 THEN "pixcountx must be greater than zero!"
  ELSE IF a.pixcounty <= 0 THEN "pixcounty must be greater than zero!"
  ELSE "ok"

\* the parameter checks of interpolate_3d_cross
CheckGrid3dCrossHeightFirst(a) ==
  IF a.pixwidthy <= 0 THEN "pixwidthy must be greater than zero!"
  ELSE IF a.pixwidthx <= 0 THEN "pixwidthx must be greater than zero!"
  ELSE IF a.pixcountx <= 0 THEN "pixcountx must be greater than zero!"
  ELSE IF a.pixcounty <= 0 THEN "pixcounty must be greater than zero!"
  ELSE "ok"
CheckGrid3dCross(a) ==
  IF a.pixwidthx <= 0 THEN "pixwidthx must be greater than zero!"
  ELSE IF a.pixwidthy <= 0 THEN "pixwidthy must be greater than zero!"
  ELSE IF a.pixcountx <= 0 THEN "pixcountx must be greater than zero!"
  ELSE IF a.pixcounty <= 0 THEN "pixcounty must be greater than zero!"
  ELSE "ok"

\* the parameter checks of interpolate_2d_cross
Check2dCrossPixcountFirst(a) ==
  IF a.pixcount <= 0 THEN "pixcount must be greater than zero!"
  ELSE IF IsClose(a.y2, a.y2n, a.y1) /\ IsClose(a.x2, a.x2n, a.x1)
    THEN "Zero length cross section!"
  ELSE "ok"
Check2dCross(a) ==
  IF IsClose(a.y2, a.y2n, a.y1) /\ IsClose(a.x2, a.x2n, a.x1)
    THEN "Zero length cross section!"
  ELSE IF a.pixcount <= 0 THEN "pixcount must be greater than zero!"
  ELSE "ok"

\* raise ValueError(msg): nothing has been read or allocated
Raise(msg) ==
  /\ pc' = "raised"
  /\ error' = msg
  /\ UNCHANGED <<data, colsRead, loc, image, todo, thr, added, returned>>

\* the columns are read with to_numpy and the _fast_ routine runs up to its
\* parallel loop: the arrays l are computed and the output allocated, zeros
Enter(zeros, l) ==
  /\ pc' = "prange"
  /\ colsRead' = TRUE
  /\ loc' = l
  /\ image' = zeros
  /\ todo' = 1..Len(l.ipixmin)
  /\ added' = [k \in 1..Len(data) |-> zeros]
  /\ UNCHANGED <<data, error, thr, returned>>

\* term = target * mass / (rho * h ** 2)
Term2(p) == (p.target * p.m) \div (p.rho * p.h * p.h)

\* term = target * mass / (rho * h ** 3)
Term3(p) == (p.target * p.m) \div (p.rho * p.h * p.h * p.h)

\* _fast_2d up to its loop
Fast2dLocals(a, dt) ==
  [term |-> [k \in 1..Len(dt) |-> Term2(dt[k])],
   ipixmin |-> [k \in 1..Len(dt) |->
      PixMin(dt[k].x, dt[k].h, get_radius, a.xmin, a.pixwidthx, a.pixcountx)],
   jpixmin |-> [k \in 1..Len(dt) |->
      PixMin(dt[k].y, dt[k].h, get_radius, a.ymin, a.pixwidthy, a.pixcounty)],
   ipixmax |-> [k \in 1..Len(dt) |->
      PixMax(dt[k].x, dt[k].h, get_radius, a.xmin, a.pixwidthx, a.pixcountx)],
   jpixmax |-> [k \in 1..Len(dt) |->
      PixMax(dt[k].y, dt[k].h, get_radius, a.ymin, a.pixwidthy, a.pixcounty)],
   dz |-> <<>>, filter_distance |-> <<>>, wfuncint |-> <<>>]

\* _fast_3d up to its loop; wfuncint is kernel.get_column_kernel(int_samples)
Fast3dLocals(a, dt) ==
  [term |-> [k \in 1..Len(dt) |-> Term2(dt[k])],
   ipixmin |-> [k \in 1..Len(dt) |->
      PixMin(dt[k].x, dt[k].h, get_radius, a.xmin, a.pixwidthx, a.pixcountx)],
   jpixmin |-> [k \in 1..Len(dt) |->
      PixMin(dt[k].y, dt[k].h, get_radius, a.ymin, a.pixwidthy, a.pixcounty)],
   ipixmax |-> [k \in 1..Len(dt) |->
      PixMax(dt[k].x, dt[k].h, get_radius, a.xmin, a.pixwidthx, a.pixcountx)],
   jpixmax |-> [k \in 1..Len(dt) |->
      PixMax(dt[k].y, dt[k].h, get_radius, a.ymin, a.pixwidthy, a.pixcounty)],
   dz |-> <<>>, filter_distance |-> <<>>,
   wfuncint |-> int_func(get_radius, a.int_samples)]

\* filter_distance = np.abs(dz) < k_rad * h
FilterDistance(a, p) == Abs(a.zslice - p.z) < get_radius * p.h

\* _fast_3d_cross up to its loop: the pixel ranges are computed on the
\* filtered columns
Fast3dCrossLocals(a, dt) ==
  LET mask == [k \in 1..Len(dt) |-> FilterDistance(a, dt[k])]
      kept == Compress(dt, mask)
  IN [term |-> [k \in 1..Len(dt) |-> Term3(dt[k])],
      dz |-> [k \in 1..Len(dt) |-> a.zslice - dt[k].z],
      filter_distance |-> mask,
      ipixmin |-> [k \in 1..Len(kept) |->
         PixMin(kept[k].x, kept[k].h, get_radius, a.xmin, a.pixwidthx, a.pixcountx)],
      jpixmin |-> [k \in 1..Len(kept) |->
         PixMin(kept[k].y, kept[k].h, get_radius, a.ymin, a.pixwidthy, a.pixcounty)],
      ipixmax |-> [k \in 1..Len(kept) |->
         PixMax(kept[k].x, kept[k].h, get_radius, a.xmin, a.pixwidthx, a.pixcountx)],
      jpixmax |-> [k \in 1..Len(kept) |->
         PixMax(kept[k].y, kept[k].h, get_radius, a.ymin, a.pixwidthy, a.pixcounty)],
      wfuncint |-> <<>>]

\* ---- _fast_2d_cross, for a line whose ends are whole numbers
\* gradient = 0, or (y2 - y1) / (x2 - x1) if not x2 - x1 == 0
Gradient(a) ==
  IF a.x2 - a.x1 = 0 THEN 0 ELSE (a.y2 - a.y1) \div (a.x2 - a.x1)

\* yint = y2 - gradient * x2
YInt(a) == a.y2 - Gradient(a) * a.x2

\* xlength = np.sqrt((x2 - x1) ** 2 + (y2 - y1) ** 2), in units of 1/Scale
XLength(a) ==
  Sqrt(((a.x2 - a.x1) * (a.x2 - a.x1) + (a.y2 - a.y1) * (a.y2 - a.y1))
         * Scale * Scale)

\* the coefficients of the quadratic and its determinant
AA(a) == 1 + Gradient(a) * Gradient(a)
BB(a, p) == 2 * Gradient(a) * (YInt(a) - p.y) - 2 * p.x
CC(a, p) ==
  p.x * p.x + p.y * p.y - 2 * YInt(a) * p.y + YInt(a) * YInt(a)
    - (get_radius * p.h) * (get_radius * p.h)
Det(a, p) == BB(a, p) * BB(a, p) - 4 * AA(a) * CC(a, p)

\* filter_det = det >= 0
FilterDet(a, p) == Det(a, p) >= 0

\* ((-bb - det) / (2 * aa)).clip(a_min=x1, a_max=x2) with det = np.sqrt(det),
\* in units of 1/Scale; sign is -1 for xstart and 1 for xend
XRoot(a, p, sign) ==
  Clip((-BB(a, p) * Scale + sign * Sqrt(Det(a, p) * Scale * Scale))
         \div (2 * AA(a)),
       a.x1 * Scale, a.x2 * Scale)

\* np.sqrt((xstart - x1) ** 2 + ((gradient * xstart + yint) - y1) ** 2), in
\* units of 1/Scale
Along(a, xs) ==
  LET dx == xs - a.x1 * Scale
      dy == Gradient(a) * xs + YInt(a) * Scale - a.y1 * Scale
  IN Sqrt(dx * dx + dy * dy)

\* np.rint(r / pixwidth).clip(a_min=0, a_max=pixcount) with
\* pixwidth = xlength / pixcount
LinePix(a, r) == Clip(Rint(r * a.pixcount, XLength(a)), 0, a.pixcount)

\* np.zeros(pixcount): pixel k of the line is cell (0, k)
ZeroLine(a) == [cell \in {0} \X (0..(a.pixcount - 1)) |-> 0]

\* _fast_2d_cross up to its loop: the pixel ranges are computed on the
\* filtered columns; the one row of the output is row 0
Fast2dCrossLocals(a, dt) ==
  LET mask == [k \in 1..Len(dt) |-> FilterDet(a, dt[k])]
      kept == Compress(dt, mask)
  IN [term |-> [k \in 1..Len(dt) |-> Term2(dt[k])],
      filter_det |-> mask,
      ipixmin |-> [k \in 1..Len(kept) |->
         LinePix(a, Along(a, XRoot(a, kept[k], -1)))],
      ipixmax |-> [k \in 1..Len(kept) |->
         LinePix(a, Along(a, XRoot(a, kept[k], 1)))],
      jpixmin |-> [k \in 1..Len(kept) |-> 0],
      jpixmax |-> [k \in 1..Len(kept) |-> 1],
      dz |-> <<>>, filter_distance |-> <<>>, wfuncint |-> <<>>]

interpolate_2d_cross(a) ==
  /\ pc = "start"
  /\ fn' = "interpolate_2d_cross"
  /\ args' = a
  /\ IF Check2dCross(a) # "ok"
       THEN Raise(Check2dCross(a))
       ELSE Enter(ZeroLine(a), Fast2dCrossLocals(a, data))
  /\ UNCHANGED <<quadVars, kernVars>>

interpolate_2d(a) ==
  /\ pc = "start"
  /\ fn' = "interpolate_2d"
  /\ args' = a
  /\ IF CheckGrid2d(a) # "ok"
       THEN Raise(CheckGrid2d(a))
       ELSE Enter(ZeroImage(a), Fast2dLocals(a, data))
  /\ UNCHANGED <<quadVars, kernVars>>

interpolate_3d(a, int_samples) ==
  /\ pc = "start"
  /\ fn' = "interpolate_3d"
  /\ args' = [a EXCEPT !.int_samples = int_samples]
  /\ IF CheckGrid3d(a) # "ok"
       THEN Raise(CheckGrid3d(a))
       ELSE Enter(ZeroImage(a), Fast3dLocals(args', data))
  /\ UNCHANGED <<quadVars, kernVars>>

interpolate_3d_cross(a, zslice) ==
  /\ pc = "start"
  /\ fn' = "interpolate_3d_cross"
  /\ args' = [a EXCEPT !.zslice = zslice]
  /\ IF CheckGrid3dCross(a) # "ok"
       THEN Raise(CheckGrid3dCross(a))
       ELSE Enter(ZeroImage(a), Fast3dCrossLocals(args', data))
  /\ UNCHANGED <<quadVars, kernVars>>

\* the pixels of image[jlo:jhi, ilo:ihi], row by row
SliceCells(jlo, jhi, ilo, ihi) ==
  LET rows == Max(jhi - jlo, 0)
      cols == Max(ihi - ilo, 0)
  IN [n \in 1..(rows * cols) |->
        <<jlo + ((n - 1) \div cols), ilo + ((n - 1) % cols)>>]

\* the pixels particle i of the loop writes: np.arange(jpixmin[i], jpixmax[i])
\* by np.arange(ipixmin[i], ipixmax[i])
RangeCells(i) ==
  SliceCells(loc.jpixmin[i], loc.jpixmax[i], loc.ipixmin[i], loc.ipixmax[i])

CellSet(i) == {RangeCells(i)[n] : n \in 1..Len(RangeCells(i))}

\* four times dx*dx + dy*dy at pixel cell = (row, column) for a particle at
\* (x, y)
PlanarSq4(cell, x, y) ==
  LET dx2 == Offset2(cell[2], args.xmin, args.pixwidthx, x)
      dy2 == Offset2(cell[1], args.ymin, args.pixwidthy, y)
  IN dx2 * dx2 + dy2 * dy2

\* _fast_2d: wab = wfunc(np.sqrt(q2), 2)
Wab2d(i) ==
  [err |-> "none",
   val |-> [cell \in CellSet(i) |->
              w(QOf(PlanarSq4(cell, data[i].x, data[i].y), data[i].h), 2)]]

\* _fast_3d: wab = np.interp(np.sqrt(q2), np.linspace(0, k_rad, int_samples),
\*                           wfuncint)
Abscissas == Linspace(0, get_radius, args.int_samples)
Wab3d(i) ==
  IF InterpError(Abscissas, loc.wfuncint) # "none"
    THEN [err |-> InterpError(Abscissas, loc.wfuncint), val |-> <<>>]
    ELSE [err |-> "none",
          val |-> [cell \in CellSet(i) |->
             InterpValue(QOf(PlanarSq4(cell, data[i].x, data[i].y), data[i].h),
                         Abscissas, loc.wfuncint)]]

\* the filter of the cross-section projector called
Mask ==
  IF fn = "interpolate_2d_cross" THEN loc.filter_det ELSE loc.filter_distance

\* x_data[filter_distance][i], x_data[filter_det][i] and the like
Kept(i) == Compress(data, Mask)[i]
DzAt(i) == Compress(loc.dz, Mask)[i]
TermAtUnfiltered(i) == loc.term[i]
TermAt(i) == Compress(loc.term, Mask)[i]

\* dx*dx + dy*dy at pixel cell = (0, k) of the line for a particle at (x, y),
\* times (2 * pixcount) ** 2: xpix = x1 + (k + 0.5) * xpixwidth with
\* xpixwidth = (x2 - x1) / pixcount, ypix = gradient * xpix + yint
LineSq4(cell, x, y) ==
  LET xpix == 2 * args.pixcount * args.x1
                + (2 * cell[2] + 1) * (args.x2 - args.x1)
      ypix == Gradient(args) * xpix + 2 * args.pixcount * YInt(args)
      dx == xpix - 2 * args.pixcount * x
      dy == ypix - 2 * args.pixcount * y
  IN dx * dx + dy * dy

\* _fast_2d_cross: wab = wfunc(np.sqrt(q2), 2)
Wab2dCross(i) ==
  [err |-> "none",
   val |-> [cell \in CellSet(i) |->
              w(QOf(LineSq4(cell, Kept(i).x, Kept(i).y),
                    args.pixcount * Kept(i).h), 2)]]

\* _fast_3d_cross: wfunc(np.sqrt(q2), 3), q2 with (dz ** 2) * (1 / h ** 2)
Wab3dCross(i) ==
  [err |-> "none",
   val |-> [cell \in CellSet(i) |->
              w(QOf(PlanarSq4(cell, Kept(i).x, Kept(i).y)
                      + 4 * DzAt(i) * DzAt(i), Kept(i).h), 3)]]

\* the weights of loop index i in the projector called
Weights(i) ==
  IF fn = "interpolate_2d" THEN Wab2d(i)
  ELSE IF fn = "interpolate_2d_cross" THEN Wab2dCross(i)
  ELSE IF fn = "interpolate_3d" THEN Wab3d(i)
  ELSE Wab3dCross(i)

CrossFns == {"interpolate_2d_cross", "interpolate_3d_cross"}
GridFns == {"interpolate_2d", "interpolate_3d", "interpolate_3d_cross"}

\* wab * term[i], wab * term[filter_det][i], or
\* term[filter_distance][i] * wfunc(...)
Contribution(i, wab) ==
  [cell \in DOMAIN wab.val |->
     wab.val[cell] * (IF fn \in CrossFns THEN TermAt(i) ELSE loc.term[i])]

\* the particle (its index in the data) that loop index i stands for
Orig(i) ==
  IF fn \in CrossFns
    THEN Compress([k \in 1..Len(data) |-> k], Mask)[i]
    ELSE i

\* a thread of the prange takes loop index i and evaluates its weights and
\* contribution; np.interp may raise.  The threads are interchangeable: of
\* the free ones the lowest-numbered takes the index
PrangeTake(t) ==
  /\ pc = "prange"
  /\ thr[t].pc = "idle"
  /\ \A u \in Threads : u < t => thr[u].pc # "idle"
  /\ \E i \in todo :
       LET wab == Weights(i)
       IN /\ todo' = todo \ {i}
          /\ IF wab.err # "none"
               THEN /\ pc' = "raised"
                    /\ error' = wab.err
                    /\ thr' = [thr EXCEPT ![t] =
                         [pc |-> "raised", i |-> i, cells |-> RangeCells(i),
                          contribution |-> <<>>, tmp |-> 0, wab |-> wab]]
               ELSE /\ UNCHANGED <<pc, error>>
                    /\ thr' = [thr EXCEPT ![t] =
                         IF Len(RangeCells(i)) = 0 THEN IdleFrame
                         ELSE [pc |-> "load", i |-> i, cells |-> RangeCells(i),
                               contribution |-> Contribution(i, wab),
                               tmp |-> 0, wab |-> wab]]
  /\ UNCHANGED <<fn, args, data, colsRead, loc, image, added, returned>>
  /\ UNCHANGED <<quadVars, kernVars>>

\* image[...] += ...: the thread reads one pixel of the slice
PixelLoad(t) ==
  /\ pc = "prange"
  /\ thr[t].pc = "load"
  /\ thr' = [thr EXCEPT ![t].tmp = image[Head(thr[t].cells)],
                        ![t].pc = "store"]
  /\ UNCHANGED <<fn, args, data, pc, error, colsRead, loc, image, todo, added,
                 returned>>
  /\ UNCHANGED <<quadVars, kernVars>>

\* image[...] += ...: the thread writes the pixel it read, plus its
\* contribution, and goes on to the next pixel of the slice
PixelStore(t) ==
  /\ pc = "prange"
  /\ thr[t].pc = "store"
  /\ LET cell == Head(thr[t].cells)
     IN /\ image' = [image EXCEPT
              ![cell] = thr[t].tmp + thr[t].contribution[cell]]
        /\ added' = [added EXCEPT
              ![Orig(thr[t].i)][cell] = @ + thr[t].contribution[cell]]
  /\ thr' = [thr EXCEPT ![t] =
       IF Len(thr[t].cells) = 1 THEN IdleFrame
       ELSE [thr[t] EXCEPT !.cells = Tail(thr[t].cells), !.pc = "load"]]
  /\ UNCHANGED <<fn, args, data, pc, error, colsRead, loc, todo, returned>>
  /\ UNCHANGED <<quadVars, kernVars>>

\* every index has been taken and every thread is through: return image
Return ==
  /\ pc = "prange"
  /\ todo = {}
  /\ \A t \in Threads : thr[t].pc = "idle"
  /\ returned' = image
  /\ pc' = "done"
  /\ UNCHANGED <<fn, args, data, error, colsRead, loc, image, todo, thr, added>>
  /\ UNCHANGED <<quadVars, kernVars>>

\* ---------------------------------------------------------- specifications
QuadNext == QuadOuter \/ QuadInner \/ QuadStore \/ QuadReturn

\* one _int_func call, stepped through its loops
InitQuad == QuadInit /\ KernIdle /\ GridIdle
SpecQuad == InitQuad /\ [][QuadNext]_vars

KernelNextOf(T, max) ==
  \E t \in T :
    \/ \E s \in SampleChoices : KCall(t, s, max)
    \/ \E s \in SampleChoices : KFuncCall(t, s, max)
    \/ KCheck(t)
    \/ KAlloc(t)
    \/ KFill(t)
    \/ KPublish(t)
    \/ KReturn(t)

KernelNextSeq == KernelNextOf({1}, MaxCallsSeq)
KernelNext == KernelNextOf(Callers, MaxCalls)

\* one thread calling into a kernel object, call after call
InitKernel == QuadIdle /\ KernInit /\ GridIdle
SpecKernelSeq == InitKernel /\ [][KernelNextSeq]_vars

\* several threads calling into one shared kernel object
SpecKernel == InitKernel /\ [][KernelNext]_vars

GridNext ==
  \/ \E a \in GridChoices : interpolate_2d(a)
  \/ \E a \in LineChoices : interpolate_2d_cross(a)
  \/ \E a \in GridChoices : \E int_samples \in 1..MaxSamples :
       interpolate_3d(a, int_samples)
  \/ \E a \in GridChoices : \E zslice \in ZSlices :
       interpolate_3d_cross(a, zslice)
  \/ \E t \in Threads : PrangeTake(t)
  \/ \E t \in Threads : PixelLoad(t)
  \/ \E t \in Threads : PixelStore(t)
  \/ Return

InitGrid == QuadIdle /\ KernIdle /\ GridInit

\* one call of a projector, its parallel loop run by several threads
SpecGrid == InitGrid /\ [][GridNext]_vars

\* ================================================================== claims

\* ---- shared by the projector claims
\* pixel cell of a grid lies in the pixel range of particle p
InRange(cell, p) ==
  /\ cell[2] >= PixMin(p.x, p.h, get_radius, args.xmin, args.pixwidthx, args.pixcountx)
  /\ cell[2] < PixMax(p.x, p.h, get_radius, args.xmin, args.pixwidthx, args.pixcountx)
  /\ cell[1] >= PixMin(p.y, p.h, get_radius, args.ymin, args.pixwidthy, args.pixcounty)
  /\ cell[1] < PixMax(p.y, p.h, get_radius, args.ymin, args.pixwidthy, args.pixcounty)

\* zslice - z for the plane projector, 0 for the others
DzOf(p) == IF fn = "interpolate_3d_cross" THEN args.zslice - p.z ELSE 0

\* the centre of pixel cell is at normalized distance q >= radius from p
\* (exactly: distance^2 >= (radius*h)^2, both sides times four)
Far(cell, p) ==
  IF fn = "interpolate_2d_cross"
    THEN LineSq4(cell, p.x, p.y)
           >= 4 * args.pixcount * args.pixcount
                * get_radius * get_radius * p.h * p.h
    ELSE PlanarSq4(cell, p.x, p.y) + 4 * DzOf(p) * DzOf(p)
           >= 4 * get_radius * get_radius * p.h * p.h

RECURSIVE SumAdded(_, _)
SumAdded(k, cell) ==
  IF k = 0 THEN 0 ELSE added[k][cell] + SumAdded(k - 1, cell)

\* ---- C1
\* C1: when a projector returns, each pixel of its image is the sum over all
\* particles of what that particle's += added to the pixel, whatever the
\* interleaving of the threads of the per-particle loop.
C1_ImageIsSumOfContributions ==
  pc = "done" =>
    \A cell \in OutCells : returned[cell] = SumAdded(Len(data), cell)

\* ---- C2
FieldOrder == <<"pixwidthx", "pixwidthy", "pixcountx", "pixcounty">>

MessageOf(field) ==
  CASE field = "pixwidthx" -> "pixwidthx must be greater than zero!"
    [] field = "pixwidthy" -> "pixwidthy must be greater than zero!"
    [] field = "pixcountx" -> "pixcountx must be greater than zero!"
    [] field = "pixcounty" -> "pixcounty must be greater than zero!"

\* C2: interpolate_2d, interpolate_3d and interpolate_3d_cross raise the
\* ValueError whenever one of pixwidthx, pixwidthy, pixcountx, pixcounty is
\* <= 0; it names the first such field in that order, and no column has been
\* read, no image allocated and none returned.
C2_GridValidation ==
  (/\ fn \in GridFns
   /\ \E n \in 1..4 : args[FieldOrder[n]] <= 0) =>
    /\ pc = "raised"
    /\ \E n \in 1..4 :
         /\ args[FieldOrder[n]] <= 0
         /\ \A m \in 1..(n - 1) : args[FieldOrder[m]] > 0
         /\ error = MessageOf(FieldOrder[n])
    /\ ~colsRead
    /\ loc = NoLocals
    /\ image = NoImage
    /\ returned = NoImage

\* interpolate_3d_cross has raised on a grid whose second, third and fourth
\* fields are all bad
C2_Witness ==
  /\ fn = "interpolate_3d_cross"
  /\ pc = "raised"
  /\ args.pixwidthx > 0 /\ args.pixwidthy <= 0
  /\ args.pixcountx <= 0 /\ args.pixcounty <= 0
  /\ error = "pixwidthy must be greater than zero!"
  /\ Len(data) > 0

\* ---- C3
\* the two ends of the line are the same point
SamePoint ==
  /\ args.x2 = args.x1 /\ args.x2n = 0
  /\ args.y2 = args.y1 /\ args.y2n = 0

\* a = aInt + aNano * 1e-9 is within 1e-8 + 1e-5 * abs(b) of the whole
\* number b; whole parts that differ are at least 1 apart, more than that
\* for every whole number the lines offered have
Near(aInt, aNano, b) ==
  /\ aInt = b
  /\ Abs(aNano) <= 10 + 10000 * Abs(b)

NearPoint ==
  /\ Near(args.x2, args.x2n, args.x1)
  /\ Near(args.y2, args.y2n, args.y1)

NoOutput ==
  /\ ~colsRead
  /\ loc = NoLocals
  /\ image = NoImage
  /\ returned = NoImage

\* C3 (as stated): interpolate_2d_cross raises the zero-length error
\* whenever (x1, y1) = (x2, y2), and the pixcount error whenever
\* pixcount <= 0 and (x1, y1) # (x2, y2); no output array is produced.
C3_ExactDegeneracy ==
  fn = "interpolate_2d_cross" =>
    /\ SamePoint =>
         pc = "raised" /\ error = "Zero length cross section!" /\ NoOutput
    /\ (args.pixcount <= 0 /\ ~SamePoint) =>
         /\ pc = "raised"
         /\ error = "pixcount must be greater than zero!"
         /\ NoOutput

\* C3 (amended): interpolate_2d_cross raises the zero-length error whenever
\* x2 is within 1e-8 + 1e-5*|x1| of x1 and y2 within 1e-8 + 1e-5*|y1| of y1,
\* which includes (x1, y1) = (x2, y2), whatever pixcount is; it raises the
\* pixcount error whenever pixcount <= 0 and the ends are not that near; in
\* both cases no column has been read and no output array is produced.
C3_LineValidation ==
  fn = "interpolate_2d_cross" =>
    /\ SamePoint => NearPoint
    /\ NearPoint =>
         pc = "raised" /\ error = "Zero length cross section!" /\ NoOutput
    /\ (args.pixcount <= 0 /\ ~NearPoint) =>
         /\ pc = "raised"
         /\ error = "pixcount must be greater than zero!"
         /\ NoOutput
    /\ (args.pixcount > 0 /\ ~NearPoint) => pc # "raised"

\* the zero-length error has been raised for a line whose ends differ, with
\* a bad pixcount as well
C3_Witness ==
  /\ fn = "interpolate_2d_cross"
  /\ pc = "raised"
  /\ error = "Zero length cross section!"
  /\ ~SamePoint
  /\ args.pixcount <= 0
  /\ Len(data) > 0

\* ---- C7
\* C7: in every projector, for a particle a thread has evaluated, each pixel
\* of its range whose centre is at q >= radius gets exactly 0: the weight
\* there is 0, and in the column projector the table lookup yields the zero
\* sentinel; nothing is ever added to such a pixel.
C7_CompactSupport ==
  /\ \A t \in DOMAIN thr :
       thr[t].i # 0 =>
         \A n \in 1..Len(RangeCells(thr[t].i)) :
           LET cell == RangeCells(thr[t].i)[n]
           IN Far(cell, data[Orig(thr[t].i)]) =>
                /\ thr[t].wab.err = "none"
                /\ thr[t].wab.val[cell] = 0
                /\ thr[t].contribution[cell] = 0
  /\ \A k \in DOMAIN added :
       \A cell \in OutCells : Far(cell, data[k]) => added[k][cell] = 0

\* ---- C8
\* what particle k of the data adds to pixel cell of the plane projector,
\* from the particle's own position, h, dz and term
Expected3dCross(k, cell) ==
  LET p == data[k]
      dz == args.zslice - p.z
  IN IF Abs(dz) >= get_radius * p.h \/ ~InRange(cell, p) THEN 0
     ELSE Term3(p) * w(QOf(PlanarSq4(cell, p.x, p.y) + 4 * dz * dz, p.h), 3)

\* the grid covers the (x, y) position of p
GridCovers(p) ==
  /\ args.xmin <= p.x /\ p.x <= args.xmin + args.pixcountx * args.pixwidthx
  /\ args.ymin <= p.y /\ p.y <= args.ymin + args.pixcounty * args.pixwidthy

\* C8 (as stated): in interpolate_3d_cross a particle with
\* |zslice - z| >= radius*h adds nothing, and a particle with
\* |zslice - z| < radius*h, a nonzero term and an (x, y) the grid covers has
\* added a nonzero value to at least one pixel.
C8_NearPlaneAlwaysVisible ==
  (fn = "interpolate_3d_cross" /\ pc = "done") =>
    \A k \in 1..Len(data) :
      /\ Abs(args.zslice - data[k].z) >= get_radius * data[k].h =>
           \A cell \in OutCells : added[k][cell] = 0
      /\ ( /\ Abs(args.zslice - data[k].z) < get_radius * data[k].h
           /\ Term3(data[k]) # 0
           /\ GridCovers(data[k]) ) =>
           \E cell \in OutCells : added[k][cell] # 0

\* C8 (amended): in interpolate_3d_cross a particle with
\* |zslice - z| >= radius*h adds nothing; a particle with
\* |zslice - z| < radius*h is splatted with its own position, h, dz and
\* term, and adds a nonzero value exactly to the pixels of its range whose
\* centre is at 3D normalized distance q < radius (when its term is
\* nonzero), which may be no pixel at all.
C8_PlaneFilter ==
  (fn = "interpolate_3d_cross" /\ colsRead) =>
    \A k \in 1..Len(data) : \A cell \in OutCells :
      /\ Abs(args.zslice - data[k].z) >= get_radius * data[k].h =>
           added[k][cell] = 0
      /\ added[k][cell] \in {0, Expected3dCross(k, cell)}
      /\ pc = "done" =>
           /\ added[k][cell] = Expected3dCross(k, cell)
           /\ added[k][cell] # 0 <=>
                /\ Abs(args.zslice - data[k].z) < get_radius * data[k].h
                /\ Term3(data[k]) # 0
                /\ InRange(cell, data[k])
                /\ ~Far(cell, data[k])

\* the plane projector has returned; the first particle was filtered out,
\* the second was splatted and shows in a pixel; or a particle inside the
\* filter and inside the grid shows in no pixel
C8_Witness ==
  /\ fn = "interpolate_3d_cross"
  /\ pc = "done"
  /\ Len(data) = 2
  /\ Abs(args.zslice - data[1].z) >= get_radius * data[1].h
  /\ Abs(args.zslice - data[2].z) < get_radius * data[2].h
  /\ Term3(data[1]) # Term3(data[2])
  /\ \E cell \in OutCells : added[2][cell] # 0
  /\ \A cell \in OutCells : added[1][cell] = 0

\* ---- C9
\* C9: in the column projector the abscissas handed to np.interp are
\* int_samples+1 equally spaced values, as many as the table
\* get_column_kernel(int_samples) returned has entries.
C9_AbscissasMatchTable ==
  (fn = "interpolate_3d" /\ colsRead) =>
    /\ Len(Abscissas) = args.int_samples + 1
    /\ Len(Abscissas) = Len(loc.wfuncint)

\* ---- C10
\* C10: for valid grid parameters the pixel ranges lie in [0, pixcountx] and
\* [0, pixcounty], the image has shape (pixcounty, pixcountx), nothing is
\* added outside a particle's range, and a particle whose range is empty
\* leaves every pixel unchanged and raises no error.
C10_RangesInsideImage ==
  (fn \in GridFns /\ colsRead) =>
    /\ \A i \in 1..Len(loc.ipixmin) :
         /\ 0 <= loc.ipixmin[i] /\ loc.ipixmin[i] <= args.pixcountx
         /\ 0 <= loc.ipixmax[i] /\ loc.ipixmax[i] <= args.pixcountx
         /\ 0 <= loc.jpixmin[i] /\ loc.jpixmin[i] <= args.pixcounty
         /\ 0 <= loc.jpixmax[i] /\ loc.jpixmax[i] <= args.pixcounty
    /\ DOMAIN image = Cells(args)
    /\ \A k \in DOMAIN added : \A cell \in OutCells :
         ~InRange(cell, data[k]) => added[k][cell] = 0
    /\ \A t \in DOMAIN thr :
         (thr[t].i # 0 /\ Len(RangeCells(thr[t].i)) = 0) =>
           thr[t].wab.err = "none" /\ pc # "raised"


\* ---- C4
HitBefore(n) ==
  /\ klog[n].samples = DefaultSamples
  /\ \E m \in 1..(n - 1) : klog[m].samples = DefaultSamples

FirstDefault(n) ==
  CHOOSE m \in 1..n :
    /\ klog[m].samples = DefaultSamples
    /\ \A k \in 1..(m - 1) : klog[k].samples # DefaultSamples

\* C4 (as stated): in a sequence of calls on one kernel object, a call whose
\* samples equals that of the immediately preceding call returns the table
\* that call returned, without a new quadrature.
C4_SameSamplesReturnsCached ==
  \A n \in 2..Len(klog) :
    klog[n].samples = klog[n - 1].samples => klog[n].ret = klog[n - 1].ret

\* C4 (amended): in a sequence of calls on one kernel object, the only call
\* that does not run the quadrature is a call with samples = 1000 made after
\* an earlier call with samples = 1000, and it returns the table of the first
\* such call; every other call, whatever the preceding call's samples,
\* returns a newly computed table.
C4_OnlyDefaultSamplesCached ==
  /\ \A n \in 1..Len(klog) :
       IF HitBefore(n)
         THEN klog[n].ret = klog[FirstDefault(n)].ret
         ELSE \A m \in 1..(n - 1) : klog[n].ret # klog[m].ret
  /\ InFlight = 0 =>
       Len(tables) = Cardinality({n \in 1..Len(klog) : ~HitBefore(n)})

\* four calls have returned: samples 2 twice, each with a table of its own,
\* then 1000 twice, both with the one table computed for the first of them
C4_Witness ==
  /\ Len(klog) = 4
  /\ InFlight = 0
  /\ klog[1].samples = 2 /\ klog[2].samples = 2
  /\ klog[1].ret # klog[2].ret
  /\ klog[3].samples = DefaultSamples /\ klog[4].samples = DefaultSamples
  /\ klog[3].ret = klog[4].ret
  /\ Len(tables) = 3

\* ---- C5
Complete(id) == tables[id].filled = tables[id].samples + 1

\* C5: with several threads in get_column_kernel on a kernel whose cache
\* starts empty, every table returned and every table held in _column_cache
\* is completely built, and the 1000-sample table is computed once and
\* published once.
C5_RaceFreeLazyFill ==
  /\ \A n \in 1..Len(klog) : Complete(klog[n].ret)
  /\ kernel.column_cache # None => Complete(kernel.column_cache)
  /\ Cardinality({id \in 1..Len(tables) :
                    tables[id].samples = DefaultSamples}) <= 1
  /\ npublish <= 1

\* ---- C6
\* the sum of the weights at evaluation points lo..hi of row i
RECURSIVE YSum(_, _, _, _)
YSum(samples, i, lo, hi) ==
  IF lo > hi THEN 0
  ELSE IF lo = hi THEN w(QAt(get_radius, samples, i, lo), 3)
  ELSE YSum(samples, i, lo, (lo + hi) \div 2)
       + YSum(samples, i, (lo + hi) \div 2 + 1, hi)

\* the 100-point composite trapezoid sum of row i, endpoints weighted 1/2,
\* in the half units of coldens
Trapezoid(samples, i) ==
  (2 * YSum(samples, i, 0, QuadPoints - 1)
     - w(QAt(get_radius, samples, i, 0), 3)
     - w(QAt(get_radius, samples, i, QuadPoints - 1), 3))
  * DZ(get_radius, samples, i)

CacheStepKeeps ==
  /\ kernel.column_cache # None =>
       kernel'.column_cache = kernel.column_cache
  /\ \A t \in DOMAIN frames :
       (frames'[t] # frames[t] /\ frames[t].samples # DefaultSamples
          /\ frames[t].pc # "idle") => kernel' = kernel

\* the calls with samples = 1000 that have returned all returned one table,
\* the one _column_cache holds
DefaultCallsAgree ==
  \A i, j \in 1..Len(klog) :
    (klog[i].samples = DefaultSamples /\ klog[j].samples = DefaultSamples) =>
      /\ klog[j].ret = klog[i].ret
      /\ kernel.column_cache = klog[i].ret

ExpectedLine(k, cell) ==
  Term2(data[k])
    * w(QOf(LineSq4(cell, data[k].x, data[k].y), args.pixcount * data[k].h), 2)

\* C12: when interpolate_2d_cross returns for a line that is not vertical,
\* drawn in either direction, what the loop has added for each particle to
\* each pixel k is term times weight(q, 2) at the centre of pixel k: the
\* clamping of the roots and the rounded pixel range leave out no pixel whose
\* centre is inside the particle's support circle.
C12_LineEveryPixelInSupport ==
  (fn = "interpolate_2d_cross" /\ pc = "done" /\ args.x1 # args.x2) =>
    \A k \in 1..Len(data) : \A cell \in OutCells :
      added[k][cell] = ExpectedLine(k, cell)
====
